---- MODULE Spec2Model ----
(***************************************************************************)
(* SkillSage: the advisor turn of rag_pipeline.py (CareerAdvisorRAG) and   *)
(* the profile store handlers of main.py, as one state machine.            *)
(*                                                                         *)
(* A text is a sequence of tokens; the empty text is <<>>.  A distance or  *)
(* similarity is an integer number of thousandths (round(x, 3) * 1000).    *)
(***************************************************************************)
EXTENDS Integers, Sequences, FiniteSets, TLC

\* ------------------------------------------------------------- bounds
NumTurns == 2        \* concurrent query_advisor invocations
NumReqs == 2         \* concurrent requests to the profile handlers of main.py
NumDocs == 2         \* documents a collection of the index can return
MaxFaults == 1       \* external failures injected in a concurrent run
MaxHistory == 6      \* entries of a supplied conversation history

\* -------------------------------------------------- program constants
SIMILARITY_THRESHOLD == 700
N_CAREERS == 3
N_SKILLS == 5
N_FAQS == 2
HISTORY_WINDOW == 5
MILLI == 1000

Turns == 1..NumTurns
Collections == <<"careers", "skills", "faqs">>
CollectionNames == {Collections[i] : i \in 1..Len(Collections)}
CallNames == {"find_one", "encode", "generate_content"} \cup CollectionNames
Emails == {"u1", "u2"}
Queries == {"q1"}
GenErrors == {"quota", "blocked"}
Distances == {SIMILARITY_THRESHOLD - 1, SIMILARITY_THRESHOLD, SIMILARITY_THRESHOLD + 1}

Min(a, b) == IF a < b THEN a ELSE b
Max(a, b) == IF a > b THEN a ELSE b
Range(s) == {s[i] : i \in 1..Len(s)}
Reverse(s) == [i \in 1..Len(s) |-> s[Len(s) + 1 - i]]

VARIABLES
    users,            \* users collection of the document store: sequence of documents
    advisor,          \* the fields of the CareerAdvisorRAG object
    index,            \* per collection: the rankings the vector index can answer with
    faults,           \* external failures that may still be injected
    rpc,              \* per request: the position inside its handler of main.py
    rq,               \* per request: the locals its handler still needs
    pc,               \* per turn: the position inside query_advisor
    args,             \* per turn: user_email, query, conversation_history
    user_context,     \* per turn: local user_context
    query_embedding,  \* per turn: local query_embedding
    results,          \* per turn: the locals careers_results, skills_results, faqs_results
    retrieved,        \* per turn: local retrieved
    outcome,          \* per turn: what the caller gets (returned text or a raise)
    calls,            \* per turn: the external calls made so far, in order
    failed,           \* per turn: the external calls that failed
    solo,             \* per turn: the locals of the same turn run alone on the same answers
    careers,          \* careers collection of the document store: requirement documents
    chats,            \* chats collection of the document store: sequence of documents
    cpc,              \* per chat request: the position inside chat_endpoint
    cq,               \* per chat request: the locals of chat_endpoint
    apc,              \* per dashboard request: the position inside its handler
    aq,               \* per dashboard request: the locals of its handler
    saved_messages,   \* saved_messages collection: sequence of documents
    tpc,              \* per toggle request: the position inside toggle_saved_message
    tq                \* per toggle request: the locals of toggle_saved_message

storeVars == <<users>>
apiVars == <<careers, chats, cpc, cq, apc, aq, saved_messages, tpc, tq>>
turnVars == <<pc, args, user_context, query_embedding, results, retrieved, outcome, calls,
             failed, solo>>
reqVars == <<rpc, rq>>
vars == <<users, advisor, index, faults, rpc, rq, pc, args, user_context, query_embedding,
          results, retrieved, outcome, calls, failed, solo, careers, chats, cpc, cq, apc, aq,
          saved_messages, tpc, tq>>

\* ----------------------------------------------------- profile store
EmptyMap == [k \in {} |-> 0]
NewUser(email, name) ==
    [email |-> email, name |-> name, skills |-> <<>>, career_goal |-> <<>>,
     qualifications |-> <<>>, currently_learning |-> <<>>,
     skill_ratings |-> EmptyMap, custom_missing_skills |-> <<>>]

\* find_one({"email": e}): the first matching document, or None
Matching(col, email) == {i \in 1..Len(col) : col[i].email = email}
FirstMatch(col, email) == CHOOSE i \in Matching(col, email) : \A j \in Matching(col, email) : i <= j
None == <<>>
Some(x) == <<x>>
find_one(col, email) == IF Matching(col, email) = {} THEN None ELSE Some(col[FirstMatch(col, email)])

\* ------------------------------------------------- advisor: pure parts
_load_system_prompt(prompt_mode) ==
    IF prompt_mode = "concise" THEN <<"concise prompt">>
    ELSE IF prompt_mode = "detailed" THEN <<"detailed prompt">>
    ELSE <<"balanced prompt">>

CareerAdvisorRAG(prompt_mode) ==
    [prompt_mode |-> prompt_mode, system_prompt |-> _load_system_prompt(prompt_mode)]

GUEST_CONTEXT == <<"**User Profile:** Guest user (no profile data available)">>
UNABLE_CONTEXT == <<"**User Profile:** Unable to load profile data">>
NO_DATA == <<"No specific internal data found on this topic in our knowledge base.">>
APOLOGY == <<"I apologize, but I encountered an error processing your question. ",
             "Please try rephrasing your question or contact support if the issue persists. ">>

\* get_user_context: the profile block for the outcome of find_one
ProfileBlock(user) == <<"## USER PROFILE", user.name, user.career_goal, user.skills>>
get_user_context(found, raised) ==
    IF raised THEN UNABLE_CONTEXT
    ELSE IF found = None THEN GUEST_CONTEXT
    ELSE ProfileBlock(found[1])

\* the hits of one collection.query answer: documents with their distances
Doc(c, i) == [coll |-> c, id |-> i]
NResults(c) == IF c = "careers" THEN N_CAREERS ELSE IF c = "skills" THEN N_SKILLS ELSE N_FAQS
Sorted(ds) == \A i \in 1..(Len(ds) - 1) : ds[i] <= ds[i + 1]
DistanceSeqs(c) ==
    UNION {{ds \in [1..n -> Distances] : Sorted(ds)} : n \in 0..Min(NumDocs, NResults(c))}
Hits(c, ds) == [i \in 1..Len(ds) |-> [doc |-> Doc(c, i), distance |-> ds[i]]]
Rankings(c) == {Hits(c, ds) : ds \in DistanceSeqs(c)}

\* retrieve_context, the loop over one answer: the similarity floor
KeepCandidateInclusive(distance, similarity_threshold) == distance <= similarity_threshold
KeepCandidate(distance, similarity_threshold) == distance < similarity_threshold
Similarity(distance) == MILLI - distance
Entry(hit) == [content |-> hit.doc, similarity |-> Similarity(hit.distance)]
RECURSIVE FilterHits(_, _)
FilterHits(hits, similarity_threshold) ==
    IF hits = <<>> THEN <<>>
    ELSE LET rest == FilterHits(Tail(hits), similarity_threshold) IN
         IF KeepCandidate(Head(hits).distance, similarity_threshold)
         THEN <<Entry(Head(hits))>> \o rest
         ELSE rest

EmptyRetrieved == [c \in CollectionNames |-> <<>>]

\* format_retrieved_context
Section(c, entries) ==
    IF entries = <<>> THEN <<>>
    ELSE <<c>> \o [i \in 1..Len(entries) |-> <<i, entries[i].similarity, entries[i].content>>]
format_retrieved_context(ret) ==
    LET context_parts == Section("careers", ret["careers"]) \o Section("skills", ret["skills"])
                           \o Section("faqs", ret["faqs"])
    IN IF context_parts = <<>> THEN NO_DATA ELSE context_parts

\* query_advisor step 3: the history block
HISTORY_HEADER == "## CONVERSATION HISTORY (Recent Messages)"
Upper(role) == IF role = "user" THEN "USER" ELSE IF role = "assistant" THEN "ASSISTANT" ELSE role
HistoryLine(msg) == <<Upper(msg.role), msg.content>>
FirstN(s, n) == SubSeq(s, 1, Min(n, Len(s)))
\* conversation_history[-5:]
LastN(s, n) == SubSeq(s, Max(1, Len(s) - n + 1), Len(s))
HistoryText(conversation_history) ==
    IF conversation_history = None \/ conversation_history[1] = <<>> THEN <<>>
    ELSE LET recent == LastN(conversation_history[1], HISTORY_WINDOW)
         IN <<HISTORY_HEADER>> \o [i \in 1..Len(recent) |-> HistoryLine(recent[i])]

\* query_advisor step 4
FullPrompt(system_prompt, uc, kb_context, history_text, query) ==
    [system_prompt |-> system_prompt, user_context |-> uc, kb_context |-> kb_context,
     history_text |-> history_text, query |-> query]

\* the generative backend: a non-empty text that depends on the prompt
Complete(full_prompt) == <<"reply to", full_prompt>>

\* query_advisor's except branch
Fallback(e) == APOLOGY \o <<"Error details: ", e>>
Returned(text) == [kind |-> "returned", text |-> text]
Raised(e) == [kind |-> "raised", error |-> e]
Pending == [kind |-> "pending"]
OnGenerateErrorPropagates(e) == Raised(e)
OnGenerateError(e) == Returned(Fallback(e))

\* ------------------------------------------------ advisor: skill matcher
\* (design document, section 4.3)
\* A skill name, label, goal or title is a sequence of words, each written in
\* some form: "python", "Python", " PYTHON ".
Word(base, form) == [base |-> base, form |-> form]
Lower(base) == <<Word(base, "lower")>>
Title(base) == <<Word(base, "title")>>
Padded(base) == <<Word(base, "padded upper")>>
\* normalization: lower-case, trim whitespace
Normalize(text) == [i \in 1..Len(text) |-> Word(text[i].base, "lower")]
\* a label split on the delimiter class, each token lower-cased and trimmed
Tokens(label) == {<<Word(label[i].base, "lower")>> : i \in 1..Len(label)}
title_case(text) == [i \in 1..Len(text) |-> Word(text[i].base, "title")]

\* presence-only matching: whole normalized label against whole normalized skills
PresenceMatchedAnyToken(label, skills) ==
    \E i \in 1..Len(skills) : Normalize(skills[i]) \in Tokens(label)
PresenceMatched(label, skills) ==
    \E i \in 1..Len(skills) : Normalize(skills[i]) = Normalize(label)
RECURSIVE MatchedLabels(_, _)
MatchedLabels(reqs, skills) ==
    IF reqs = <<>> THEN <<>>
    ELSE IF PresenceMatched(Head(reqs).label, skills)
         THEN <<Head(reqs).label>> \o MatchedLabels(Tail(reqs), skills)
         ELSE MatchedLabels(Tail(reqs), skills)

\* round(num / den): to the nearest integer, a half to the even neighbour
Round(num, den) ==
    LET q == num \div den
        r == num % den
    IN IF 2 * r > den THEN q + 1
       ELSE IF 2 * r < den THEN q
       ELSE IF q % 2 = 0 THEN q ELSE q + 1
PERCENT == 100
\* coverage = round(100 * |matched| / max(1, |required|))
coverage(matched_count, required_count) ==
    Round(PERCENT * matched_count, Max(1, required_count))
presence_coverage(reqs, skills) == coverage(Len(MatchedLabels(reqs, skills)), Len(reqs))

\* token + rating matching.  The keys of the rating map are compared in
\* normalized form (the rating map is case-insensitive, section 3).
MaxOf(S) == CHOOSE x \in S : \A y \in S : y <= x
NormalizedRatings(ratings) ==
    [k \in {Normalize(j) : j \in DOMAIN ratings} |->
        MaxOf({ratings[j] : j \in {i \in DOMAIN ratings : Normalize(i) = k}})]
derived_rating(label, ratings) ==
    LET byKey == NormalizedRatings(ratings)
        keys == (Tokens(label) \cup {Normalize(label)}) \cap DOMAIN byKey
    IN MaxOf({0} \cup {byKey[k] : k \in keys})
lenient_present(label, skills) ==
    \E i \in 1..Len(skills) : Normalize(skills[i]) \in Tokens(label)
RATING_MARGIN == 2
\* policy A (lenient)
missing_lenient(label, skills) == ~lenient_present(label, skills)
\* policy B (strict)
missing_strict_wide_margin(label, target_level, skills, ratings) ==
    \/ ~lenient_present(label, skills)
    \/ derived_rating(label, ratings) = 0
    \/ derived_rating(label, ratings) < target_level - (RATING_MARGIN - 1)
missing_strict(label, target_level, skills, ratings) ==
    \/ ~lenient_present(label, skills)
    \/ derived_rating(label, ratings) = 0
    \/ derived_rating(label, ratings) < target_level - RATING_MARGIN

\* ------------------------------------------- advisor: gap analysis engine
\* (design document, section 4.4)
Requirement(label, level) == [label |-> label, level |-> level]
FALLBACK_LEVEL == 5
FALLBACK_REQUIREMENTS ==
    <<Requirement(Title("communication"), FALLBACK_LEVEL),
      Requirement(<<Word("problem", "title"), Word("solving", "title")>>, FALLBACK_LEVEL),
      Requirement(Title("teamwork"), FALLBACK_LEVEL)>>
MAX_CHART == 12

\* find_requirement: the first career document whose title is the goal, case-insensitively
TitleMatches(store, goal) ==
    {i \in 1..Len(store) : Normalize(store[i].title) = Normalize(goal)}
find_requirement(store, goal) ==
    IF TitleMatches(store, goal) = {} THEN None
    ELSE Some(store[CHOOSE i \in TitleMatches(store, goal) :
                        \A j \in TitleMatches(store, goal) : i <= j])
\* on miss, the fixed generic fallback map
resolve_requirements_no_fallback(store, goal) ==
    IF find_requirement(store, goal) = None THEN <<>>
    ELSE find_requirement(store, goal)[1].requirements
resolve_requirements(store, goal) ==
    IF find_requirement(store, goal) = None THEN FALLBACK_REQUIREMENTS
    ELSE find_requirement(store, goal)[1].requirements

\* the chart series of one goal, over the first 12 requirements
chart_series(goal, reqs, ratings) ==
    LET shown == FirstN(reqs, MAX_CHART)
    IN [goal |-> goal,
        labels |-> [i \in 1..Len(shown) |-> shown[i].label],
        user_levels |-> [i \in 1..Len(shown) |-> derived_rating(shown[i].label, ratings)],
        target_levels |-> [i \in 1..Len(shown) |-> shown[i].level]]

\* the global missing-skill list, deduplicated by (skill label, goal)
MissingEntry(label, goal) == [skill |-> label, goal |-> goal]
add_missing_always(missing, entry) == Append(missing, entry)
add_missing(missing, entry) ==
    IF \E i \in 1..Len(missing) : missing[i].skill = entry.skill /\ missing[i].goal = entry.goal
    THEN missing
    ELSE Append(missing, entry)
RECURSIVE missing_of_goal(_, _, _, _, _)
missing_of_goal(goal, reqs, skills, ratings, missing) ==
    IF reqs = <<>> THEN missing
    ELSE missing_of_goal(goal, Tail(reqs), skills, ratings,
             IF missing_strict(Head(reqs).label, Head(reqs).level, skills, ratings)
             THEN add_missing(missing, MissingEntry(Head(reqs).label, goal))
             ELSE missing)
RECURSIVE missing_of_goals(_, _, _, _, _)
missing_of_goals(goals, store, skills, ratings, missing) ==
    IF goals = <<>> THEN missing
    ELSE missing_of_goals(Tail(goals), store, skills, ratings,
             missing_of_goal(Head(goals), resolve_requirements(store, Head(goals)),
                             skills, ratings, missing))

\* get_detailed_gap_analysis(user_key) -> GapAnalysisDocument
GapAnalysisDocument(user, store) ==
    [charts |-> [g \in 1..Len(user.career_goal) |->
                    chart_series(user.career_goal[g],
                                 resolve_requirements(store, user.career_goal[g]),
                                 user.skill_ratings)],
     missing_skills |-> missing_of_goals(user.career_goal, store, user.skills,
                                         user.skill_ratings, <<>>),
     skills |-> user.skills,
     skill_ratings |-> user.skill_ratings]
get_detailed_gap_analysis(profiles, store, user_key) ==
    IF find_one(profiles, user_key) = None THEN Raised("no profile")
    ELSE Returned(GapAnalysisDocument(find_one(profiles, user_key)[1], store))

\* ------------------------------------------ advisor: recommendation ranker
\* (design document, section 4.5)
DEFAULT_K == 3
MAX_SHOWN == 3
NO_MATCHING_SKILLS == <<"No matching skills yet">>
\* up to 3 title-cased matched names, "+N more" beyond 3, or the fallback text
matching_skills_text(matched) ==
    IF matched = <<>> THEN NO_MATCHING_SKILLS
    ELSE [i \in 1..Min(MAX_SHOWN, Len(matched)) |-> title_case(matched[i])]
           \o (IF Len(matched) > MAX_SHOWN THEN <<<<"+", Len(matched) - MAX_SHOWN, "more">>>>
               ELSE <<>>)
\* one candidate of the vector search, scored by presence-only coverage
RecommendationEntry(hit, store, skills) ==
    [title |-> store[hit.doc.id].title,
     match_score |-> presence_coverage(store[hit.doc.id].requirements, skills),
     matching_skills |-> matching_skills_text(MatchedLabels(store[hit.doc.id].requirements,
                                                            skills)),
     similarity |-> Similarity(hit.distance)]
\* descending by match_score, candidates of equal score in the order retrieved
RECURSIVE InsertByScore(_, _)
InsertByScore(sorted, e) ==
    IF sorted = <<>> THEN <<e>>
    ELSE IF Head(sorted).match_score >= e.match_score
         THEN <<Head(sorted)>> \o InsertByScore(Tail(sorted), e)
         ELSE <<e>> \o sorted
RECURSIVE SortByScore(_)
SortByScore(entries) ==
    IF entries = <<>> THEN <<>>
    ELSE InsertByScore(SortByScore(SubSeq(entries, 1, Len(entries) - 1)), entries[Len(entries)])
rank_by_similarity(entries) == entries
rank_by_match_score(entries) == SortByScore(entries)
\* get_career_recommendations(user_key, k) -> [RecommendationEntry]
\* (hits: the answer of the careers collection to the embedded query, None when
\* the embedding or the index failed)
get_career_recommendations(profiles, store, user_key, k, hits) ==
    IF find_one(profiles, user_key) = None \/ hits = None THEN <<>>
    ELSE LET user == find_one(profiles, user_key)[1]
             top == FirstN(hits[1], k)
         IN rank_by_match_score([i \in 1..Len(top) |->
                                   RecommendationEntry(top[i], store, user.skills)])

\* ------------------------------------------------ advisor: one turn
\* a history of n messages, user and assistant in turn, each with its own content
Message(i) == [role |-> IF i % 2 = 1 THEN "user" ELSE "assistant", content |-> <<"message", i>>]
History(n) == [i \in 1..n |-> Message(i)]
Histories == {None} \cup {Some(History(n)) : n \in 0..MaxHistory}
Inputs == [user_email : Emails, query : Queries, conversation_history : Histories]
NoInput == [user_email |-> "u1", query |-> "q1", conversation_history |-> None]
NoResults == [state |-> "unset", hits |-> <<>>]
Answered(hits) == [state |-> "answered", hits |-> hits]
QueryRaised == [state |-> "raised", hits |-> <<>>]

\* an external call may fail while failures may still be injected
MayFail == faults > 0
Fault(fails) == faults' = IF fails THEN faults - 1 ELSE faults
Note(t, call, fails) ==
    /\ calls' = [calls EXCEPT ![t] = Append(@, call)]
    /\ failed' = [failed EXCEPT ![t] = IF fails THEN @ \cup {call} ELSE @]
    /\ Fault(fails)

\* line 514: the call enters query_advisor
Start(t) ==
    /\ pc[t] = "idle"
    /\ pc' = [pc EXCEPT ![t] = "user_context"]
    /\ UNCHANGED <<apiVars, users, advisor, index, rpc, rq, faults, args, user_context,
                   query_embedding, results, retrieved, outcome, calls, failed, solo>>

\* line 518: user_context is a local of the call
SetUserContextShared(uc, t, v) == [u \in DOMAIN uc |-> v]
SetUserContext(uc, t, v) == [uc EXCEPT ![t] = v]
\* lines 518-522: whatever the profile block, the turn goes on to retrieval
AfterUserContextGuestEnds(context) ==
    IF context = GUEST_CONTEXT THEN [pc |-> "done", outcome |-> Returned(GUEST_CONTEXT)]
    ELSE [pc |-> "embed", outcome |-> Pending]
AfterUserContext(context) == [pc |-> "embed", outcome |-> Pending]

\* step 1, get_user_context: one read of the profile store
GetUserContext(t) ==
    /\ pc[t] = "user_context"
    /\ \E raised \in {FALSE} \cup {f \in {TRUE} : MayFail} :
         LET context == get_user_context(find_one(users, args[t].user_email), raised)
             next == AfterUserContext(context)
         IN /\ user_context' = SetUserContext(user_context, t, context)
            /\ solo' = [solo EXCEPT ![t].user_context = context]
            /\ pc' = [pc EXCEPT ![t] = next.pc]
            /\ outcome' = [outcome EXCEPT ![t] = next.outcome]
            /\ Note(t, "find_one", raised)
    /\ UNCHANGED <<apiVars, users, advisor, index, rpc, rq, args, query_embedding, results,
                   retrieved>>

\* _get_embedding: the vector, or [] when encode raises
_get_embedding(text, raised) == IF raised THEN <<>> ELSE <<"vector of", text>>
\* retrieve_context lines 370-372: no embedding, no query of the index
AfterEmbeddingAborts(embedding) == IF embedding = <<>> THEN "done" ELSE "careers"
AfterEmbeddingQueriesAnyway(embedding) == "careers"
AfterEmbedding(embedding) == IF embedding = <<>> THEN "generate" ELSE "careers"

\* step 2a, retrieve_context up to the first query of the index
Embed(t) ==
    /\ pc[t] = "embed"
    /\ \E raised \in {FALSE} \cup {f \in {TRUE} : MayFail} :
         LET embedding == _get_embedding(args[t].query, raised)
         IN /\ query_embedding' = [query_embedding EXCEPT ![t] = embedding]
            /\ retrieved' = [retrieved EXCEPT ![t] = EmptyRetrieved]
            /\ solo' = [solo EXCEPT ![t].retrieved = EmptyRetrieved]
            /\ pc' = [pc EXCEPT ![t] = AfterEmbedding(embedding)]
            /\ Note(t, "encode", raised)
    /\ UNCHANGED <<apiVars, users, advisor, index, rpc, rq, args, user_context, results, outcome>>

\* the collection object each block of retrieve_context queries
CollectionOf(block) == block
\* the except branch of one block: the block's list stays as it is, the others too
OnQueryErrorDropsAll(ret, c) == [d \in DOMAIN ret |-> <<>>]
OnQueryError(ret, c) == ret
\* the loop of one block appends the kept candidates to the block's list
OnQueryAnswerNewestFirst(ret, c, hits) ==
    [ret EXCEPT ![c] = Reverse(FilterHits(hits, SIMILARITY_THRESHOLD)) \o @]
OnQueryAnswer(ret, c, hits) ==
    [ret EXCEPT ![c] = @ \o FilterHits(hits, SIMILARITY_THRESHOLD)]
NextBlockGeneratesEarly(c, raised) == IF c = "careers" THEN "generate" ELSE "faqs"
NextBlockRetries(c, raised) ==
    IF raised THEN c
    ELSE IF c = "careers" THEN "skills" ELSE IF c = "skills" THEN "faqs" ELSE "generate"
\* after a block, whether its query raised or not, the next block runs
NextBlock(c, raised) ==
    IF c = "careers" THEN "skills" ELSE IF c = "skills" THEN "faqs" ELSE "generate"

\* one try block of retrieve_context: query the collection, filter its answer
QueryCollection(t, c) ==
    /\ pc[t] = c
    /\ \/ \E hits \in index[CollectionOf(c)] :
            /\ results' = [results EXCEPT ![t][c] = Answered(hits)]
            /\ retrieved' = [retrieved EXCEPT ![t] = OnQueryAnswer(@, c, hits)]
            /\ solo' = [solo EXCEPT ![t].retrieved = OnQueryAnswer(@, c, hits)]
            /\ pc' = [pc EXCEPT ![t] = NextBlock(c, FALSE)]
            /\ Note(t, c, FALSE)
       \/ /\ MayFail
          /\ results' = [results EXCEPT ![t][c] = QueryRaised]
          /\ retrieved' = [retrieved EXCEPT ![t] = OnQueryError(@, c)]
          /\ solo' = [solo EXCEPT ![t].retrieved = OnQueryError(@, c)]
          /\ pc' = [pc EXCEPT ![t] = NextBlock(c, TRUE)]
          /\ Note(t, c, TRUE)
    /\ UNCHANGED <<apiVars, users, advisor, index, rpc, rq, args, user_context, query_embedding,
                   outcome>>

\* lines 380-402
QueryCareers(t) == pc[t] = "careers" /\ QueryCollection(t, "careers")
\* lines 404-425
QuerySkills(t) == pc[t] = "skills" /\ QueryCollection(t, "skills")
\* lines 427-450: the last block, and retrieve_context returns
QueryFaqs(t) == pc[t] = "faqs" /\ QueryCollection(t, "faqs")

\* steps 3 and 4: the prompt from the locals of the turn
PromptOf(system_prompt, input, uc, ret) ==
    FullPrompt(system_prompt, uc, format_retrieved_context(ret),
               HistoryText(input.conversation_history), input.query)

\* step 5: the generative backend answers, or raises into the except branch
Generate(t) ==
    /\ pc[t] = "generate"
    /\ \/ /\ outcome' = [outcome EXCEPT ![t] =
                 Returned(Complete(PromptOf(advisor.system_prompt, args[t],
                                            user_context[t], retrieved[t])))]
          /\ solo' = [solo EXCEPT ![t].outcome =
                 Returned(Complete(PromptOf(_load_system_prompt("balanced"), args[t],
                                            solo[t].user_context, solo[t].retrieved)))]
          /\ Note(t, "generate_content", FALSE)
       \/ /\ MayFail
          /\ \E e \in GenErrors :
               /\ outcome' = [outcome EXCEPT ![t] = OnGenerateError(e)]
               /\ solo' = [solo EXCEPT ![t].outcome = Returned(Fallback(e))]
          /\ Note(t, "generate_content", TRUE)
    /\ pc' = [pc EXCEPT ![t] = "done"]
    /\ UNCHANGED <<apiVars, users, advisor, index, rpc, rq, args, user_context, query_embedding,
                   results, retrieved>>

Turn(t) ==
    \/ Start(t)
    \/ GetUserContext(t)
    \/ Embed(t)
    \/ QueryCareers(t)
    \/ QuerySkills(t)
    \/ QueryFaqs(t)
    \/ Generate(t)

\* ------------------------------------------- main.py: profile handlers
Reqs == 1..NumReqs
StoreEmails == {"u1"}
Skills == {"python"}
Ratings == {1, 5}
NoDup(seq) == \A i \in 1..Len(seq) : \A j \in 1..Len(seq) : seq[i] = seq[j] => i = j
ListsOver(S) == {l \in UNION {[1..n -> S] : n \in 0..Cardinality(S)} : NoDup(l)}
RatingMaps == UNION {[D -> Ratings] : D \in SUBSET Skills}
Idle == [email |-> "", skill |-> "", skill_ratings |-> EmptyMap]

\* update_one(filter, update): the first document the filter matches is updated
\* (matches: the positions the filter matches; updated: each document once updated)
update_one_removes(col, matches, updated) ==
    IF matches = {} THEN col
    ELSE LET i == CHOOSE k \in matches : \A j \in matches : k <= j
         IN [j \in 1..(Len(col) - 1) |-> IF j < i THEN col[j] ELSE col[j + 1]]
update_one(col, matches, updated) ==
    IF matches = {} THEN col
    ELSE LET i == CHOOSE k \in matches : \A j \in matches : k <= j
         IN [col EXCEPT ![i] = updated[i]]
\* the update operators of the document store, on one array or map field
AddToSet(list, x) == IF x \in Range(list) THEN list ELSE Append(list, x)
RECURSIVE Pull(_, _)
Pull(list, x) ==
    IF list = <<>> THEN <<>>
    ELSE IF Head(list) = x THEN Pull(Tail(list), x)
    ELSE <<Head(list)>> \o Pull(Tail(list), x)
Unset(map, k) == [j \in DOMAIN map \ {k} |-> map[j]]
SetKey(map, k, v) == [j \in DOMAIN map \cup {k} |-> IF j = k THEN v ELSE map[j]]

\* get_current_user: the document of the cookie's email, None without one
get_current_user(col, token) == find_one(col, token)
\* raise HTTPException(401)
UNAUTHORIZED == 401

\* register, lines 125-126: an email that has a document is rejected
RegisterCheck(r) ==
    /\ rpc[r] = "idle"
    /\ \E email \in StoreEmails :
         IF find_one(users, email) # None
         THEN UNCHANGED <<rpc, rq>>
         ELSE /\ rpc' = [rpc EXCEPT ![r] = "register_insert"]
              /\ rq' = [rq EXCEPT ![r].email = email]
    /\ UNCHANGED <<apiVars, users, advisor, index, faults, turnVars>>

\* register, lines 127-133
RegisterInsert(r) ==
    /\ rpc[r] = "register_insert"
    /\ users' = Append(users, NewUser(rq[r].email, "n1"))
    /\ rpc' = [rpc EXCEPT ![r] = "idle"]
    /\ rq' = [rq EXCEPT ![r] = Idle]
    /\ UNCHANGED <<apiVars, advisor, index, faults, turnVars>>

\* line 183, 199, 231: the handler reads the caller's document, 401 without one
Authenticate(r, next) ==
    /\ rpc[r] = "idle"
    /\ \E token \in StoreEmails :
         LET user == get_current_user(users, token)
         IN IF user = None
            THEN UNCHANGED <<rpc, rq>>
            ELSE /\ rpc' = [rpc EXCEPT ![r] = next]
                 /\ rq' = [rq EXCEPT ![r] = [email |-> user[1].email, skill |-> "",
                                            skill_ratings |->
                                                IF next = "update_write"
                                                THEN user[1].skill_ratings ELSE EmptyMap]]
    /\ UNCHANGED <<apiVars, users, advisor, index, faults, turnVars>>

\* update_profile, lines 183-184
UpdateRead(r) == rpc[r] = "idle" /\ Authenticate(r, "update_write")

\* the JSON body of PUT /api/profile: each field is supplied or left out; name
\* stands for the five Optional[str] fields, and no body supplies qualifications
Supplied(S) == {None} \cup {Some(x) : x \in S}
ProfileBodies ==
    [name : Supplied({"n2"}), career_goal : Supplied(ListsOver({"g1"})),
     qualifications : {None}, skills : Supplied(ListsOver(Skills)),
     currently_learning : Supplied(ListsOver(Skills))]
\* UserProfileUpdate: a field the body leaves out takes the default of its
\* declaration, None for a string and the empty list for a list
UserProfileUpdate(body) ==
    [name |-> body.name,
     career_goal |-> IF body.career_goal = None THEN <<>> ELSE body.career_goal[1],
     qualifications |-> IF body.qualifications = None THEN <<>> ELSE body.qualifications[1],
     skills |-> IF body.skills = None THEN <<>> ELSE body.skills[1],
     currently_learning |->
         IF body.currently_learning = None THEN <<>> ELSE body.currently_learning[1]]
ProfileUpdates == {UserProfileUpdate(body) : body \in ProfileBodies}
\* update_profile, lines 188-192: the ratings of the snapshot, cut to the new skills
clean_ratings(current_ratings, new_skills) ==
    [k \in DOMAIN current_ratings \cap Range(new_skills) |-> current_ratings[k]]
\* update_profile, line 186 and the $set of line 194
SetProfile(doc, data, ratings) ==
    [doc EXCEPT !.name = IF data.name = None THEN @ ELSE data.name[1],
                !.career_goal = data.career_goal,
                !.qualifications = data.qualifications,
                !.skills = data.skills,
                !.currently_learning = data.currently_learning,
                !.skill_ratings = ratings]

\* update_profile, line 194: the store after the $set, for the caller's email and
\* the ratings of the document the handler read at line 183
update_profile(col, email, current_ratings, data) ==
    update_one(col, Matching(col, email),
               [i \in DOMAIN col |->
                  SetProfile(col[i], data, clean_ratings(current_ratings, data.skills))])

\* update_profile, lines 186-195
UpdateWrite(r) ==
    /\ rpc[r] = "update_write"
    /\ \E data \in ProfileUpdates :
         users' = update_profile(users, rq[r].email, rq[r].skill_ratings, data)
    /\ rpc' = [rpc EXCEPT ![r] = "idle"]
    /\ rq' = [rq EXCEPT ![r] = Idle]
    /\ UNCHANGED <<apiVars, advisor, index, faults, turnVars>>

\* skill_action, lines 199-200
SkillRead(r) == rpc[r] = "idle" /\ Authenticate(r, "skill_update")

\* skill_action, line 204
Learned(doc, skill) ==
    [doc EXCEPT !.skills = AddToSet(@, skill), !.currently_learning = Pull(@, skill)]
\* skill_action, line 205
RateLearned(doc, skill) == [doc EXCEPT !.skill_ratings = SetKey(@, skill, 1)]
\* skill_action, line 207
Unlearned(doc, skill) ==
    [doc EXCEPT !.skills = Pull(@, skill), !.skill_ratings = Unset(@, skill)]
\* skill_action, line 211
Learning(doc, skill) ==
    [doc EXCEPT !.currently_learning = AddToSet(@, skill), !.skills = Pull(@, skill),
                !.skill_ratings = Unset(@, skill)]
\* skill_action, line 213
NotLearning(doc, skill) == [doc EXCEPT !.currently_learning = Pull(@, skill)]

\* skill_action, lines 202-215, up to its first update of the store
SkillUpdate(r) ==
    /\ rpc[r] = "skill_update"
    /\ \E skill \in Skills, action \in {"learned", "learning", "other"}, active \in BOOLEAN :
         LET mine == Matching(users, rq[r].email) IN
         /\ users' =
              IF action = "learned" /\ active
              THEN update_one(users, mine, [i \in DOMAIN users |-> Learned(users[i], skill)])
              ELSE IF action = "learned"
              THEN update_one(users, mine, [i \in DOMAIN users |-> Unlearned(users[i], skill)])
              ELSE IF action = "learning" /\ active
              THEN update_one(users, mine, [i \in DOMAIN users |-> Learning(users[i], skill)])
              ELSE IF action = "learning"
              THEN update_one(users, mine, [i \in DOMAIN users |-> NotLearning(users[i], skill)])
              ELSE users
         /\ IF action = "learned" /\ active
            THEN /\ rpc' = [rpc EXCEPT ![r] = "skill_rate"]
                 /\ rq' = [rq EXCEPT ![r].skill = skill]
            ELSE /\ rpc' = [rpc EXCEPT ![r] = "idle"]
                 /\ rq' = [rq EXCEPT ![r] = Idle]
    /\ UNCHANGED <<apiVars, advisor, index, faults, turnVars>>

\* skill_action, line 205: the second update of 'learned', for a skill not yet rated
SkillRate(r) ==
    /\ rpc[r] = "skill_rate"
    /\ users' = update_one(users,
                           {i \in Matching(users, rq[r].email) :
                                rq[r].skill \notin DOMAIN users[i].skill_ratings},
                           [i \in DOMAIN users |-> RateLearned(users[i], rq[r].skill)])
    /\ rpc' = [rpc EXCEPT ![r] = "idle"]
    /\ rq' = [rq EXCEPT ![r] = Idle]
    /\ UNCHANGED <<apiVars, advisor, index, faults, turnVars>>

\* save_analysis, lines 231-232
SaveRead(r) == rpc[r] = "idle" /\ Authenticate(r, "save_write")

\* AnalysisSaveRequest
AnalysisSaves == [skill_ratings : RatingMaps, custom_missing_skills : ListsOver({"docker"})]
\* save_analysis, line 234: both fields are replaced by the request's
SaveAnalysis(doc, data) ==
    [doc EXCEPT !.skill_ratings = data.skill_ratings,
                !.custom_missing_skills = data.custom_missing_skills]

\* save_analysis, lines 234-235
SaveWrite(r) ==
    /\ rpc[r] = "save_write"
    /\ \E data \in AnalysisSaves :
         users' = update_one(users, Matching(users, rq[r].email),
                             [i \in DOMAIN users |-> SaveAnalysis(users[i], data)])
    /\ rpc' = [rpc EXCEPT ![r] = "idle"]
    /\ rq' = [rq EXCEPT ![r] = Idle]
    /\ UNCHANGED <<apiVars, advisor, index, faults, turnVars>>

\* ------------------------------------------------ main.py: chat_endpoint
NoUpload == [content_type |-> "", readable |-> TRUE]
Upload(content_type, readable) == [content_type |-> content_type, readable |-> readable]
\* an upload is an image or not, and its bytes open as an image / decode as UTF-8 or not
Uploads == {NoUpload} \cup {Upload(ct, rd) : ct \in {"image/png", "text/plain"}, rd \in BOOLEAN}
ChatIdle ==
    [email |-> "", chat_id |-> None, user_message |-> "", upload |-> NoUpload,
     ai_text |-> <<>>, response |-> Pending]
NoCookie == ""
\* a chat_id of the request that names no chat
UNKNOWN_CHAT == <<"chat", 0>>
NAME_ERROR == "name 'direct_model' is not defined"
RAG_INITIALIZING == <<"RAG Initializing...">>
notChat == <<users, advisor, index, faults, rpc, rq, careers, apc, aq, saved_messages, tpc, tq>>

\* chats_collection documents and their updates
NewChat(id, email, title) ==
    [id |-> id, user_email |-> email, title |-> title, updated_at |-> 0, messages |-> <<>>]
ChatMessage(sender, text) == [sender |-> sender, text |-> text]
Now(col) == 1 + MaxOf({0} \cup {col[i].updated_at : i \in 1..Len(col)})
ChatsWithId(col, id) == {i \in 1..Len(col) : col[i].id = id}
\* str(uuid.uuid4()): an id that no chat has and no request names
NewChatId(col) ==
    <<"chat", 1 + MaxOf({0} \cup {col[i].id[2] : i \in 1..Len(col)}
                           \cup {cq[t].chat_id[1][2] : t \in {u \in Turns : cq[u].chat_id # None}})>>

\* lines 340-343: the caller's document or 401, then a new chat or the one named
ChatAuth(t) ==
    /\ cpc[t] = "idle"
    /\ \E token \in Emails \cup {NoCookie}, user_message \in Queries, upload \in Uploads,
          chat_id \in {None, Some(UNKNOWN_CHAT)} \cup {Some(chats[i].id) : i \in 1..Len(chats)} :
         LET user == IF token = NoCookie THEN None ELSE get_current_user(users, token)
         IN IF user = None
            THEN /\ cpc' = [cpc EXCEPT ![t] = "done"]
                 /\ cq' = [cq EXCEPT ![t].response = Raised(UNAUTHORIZED)]
            ELSE /\ cpc' = [cpc EXCEPT ![t] = IF chat_id = None THEN "create" ELSE "answer"]
                 /\ cq' = [cq EXCEPT ![t] = [ChatIdle EXCEPT !.email = user[1].email,
                                                             !.chat_id = chat_id,
                                                             !.user_message = user_message,
                                                             !.upload = upload]]
    /\ UNCHANGED <<notChat, turnVars, chats>>

\* lines 343-344: a chat of the caller under a new id
ChatCreate(t) ==
    /\ cpc[t] = "create"
    /\ chats' = Append(chats, NewChat(NewChatId(chats), cq[t].email, cq[t].user_message))
    /\ cq' = [cq EXCEPT ![t].chat_id = Some(NewChatId(chats))]
    /\ cpc' = [cpc EXCEPT ![t] = "answer"]
    /\ UNCHANGED <<notChat, turnVars>>

\* lines 353-354: opening the image or decoding the text is outside the try
ReadUpload(upload) ==
    IF upload.readable THEN Pending ELSE Raised("unreadable upload")
\* lines 355-356: direct_model is not a name of main.py
DirectAnswer == <<"Error: ", NAME_ERROR>>

\* lines 349-356: the answer to a message with an upload
ChatUpload(t) ==
    /\ cpc[t] = "answer"
    /\ cq[t].upload # NoUpload
    /\ IF ReadUpload(cq[t].upload).kind = "raised"
       THEN /\ cq' = [cq EXCEPT ![t].response = ReadUpload(cq[t].upload)]
            /\ cpc' = [cpc EXCEPT ![t] = "done"]
       ELSE /\ cq' = [cq EXCEPT ![t].ai_text = DirectAnswer]
            /\ cpc' = [cpc EXCEPT ![t] = "push_user"]
    /\ UNCHANGED <<notChat, turnVars, chats>>

\* lines 358-361 without an advisor
ChatNoAdvisor(t) ==
    /\ cpc[t] = "answer"
    /\ cq[t].upload = NoUpload
    /\ advisor = None
    /\ cq' = [cq EXCEPT ![t].ai_text = RAG_INITIALIZING]
    /\ cpc' = [cpc EXCEPT ![t] = "push_user"]
    /\ UNCHANGED <<notChat, turnVars, chats>>

\* line 359: query_advisor(user["email"], user_message), no history passed
ChatAsk(t) ==
    /\ cpc[t] = "answer"
    /\ cq[t].upload = NoUpload
    /\ advisor # None
    /\ pc[t] = "idle"
    /\ args' = [args EXCEPT ![t] = [user_email |-> cq[t].email, query |-> cq[t].user_message,
                                    conversation_history |-> None]]
    /\ pc' = [pc EXCEPT ![t] = "user_context"]
    /\ cpc' = [cpc EXCEPT ![t] = "advisor"]
    /\ UNCHANGED <<notChat, chats, cq, user_context, query_embedding, results, retrieved,
                   outcome, calls, failed, solo>>

\* lines 359-360: the advisor's text, or the text of what it raised
ChatAnswered(t) ==
    /\ cpc[t] = "advisor"
    /\ pc[t] = "done"
    /\ cq' = [cq EXCEPT ![t].ai_text =
                 IF outcome[t].kind = "returned" THEN outcome[t].text
                 ELSE <<"RAG Error: ", outcome[t].error>>]
    /\ cpc' = [cpc EXCEPT ![t] = "push_user"]
    /\ UNCHANGED <<notChat, turnVars, chats>>

\* line 363: $push of the user's message to the chat of that _id, whoever owns it
PushMessage(doc, message, now) ==
    [doc EXCEPT !.messages = Append(@, message), !.updated_at = now]
ChatPushUser(t) ==
    /\ cpc[t] = "push_user"
    /\ chats' = update_one(chats, ChatsWithId(chats, cq[t].chat_id[1]),
                           [i \in DOMAIN chats |->
                              PushMessage(chats[i], ChatMessage("user", cq[t].user_message),
                                          Now(chats))])
    /\ cpc' = [cpc EXCEPT ![t] = "push_ai"]
    /\ UNCHANGED <<notChat, turnVars, cq>>

\* lines 364-365: $push of the answer, and the response
ChatResponse(chat_id, ai_text) == [chat_id |-> chat_id, ai_response |-> ai_text]
ChatPushAi(t) ==
    /\ cpc[t] = "push_ai"
    /\ chats' = update_one(chats, ChatsWithId(chats, cq[t].chat_id[1]),
                           [i \in DOMAIN chats |->
                              [chats[i] EXCEPT !.messages =
                                   Append(@, ChatMessage("ai", cq[t].ai_text))]])
    /\ cq' = [cq EXCEPT ![t].response = Returned(ChatResponse(cq[t].chat_id[1], cq[t].ai_text))]
    /\ cpc' = [cpc EXCEPT ![t] = "done"]
    /\ UNCHANGED <<notChat, turnVars>>

\* chat_endpoint, with the steps of the query_advisor call it makes (requests of
\* other worker processes may run between them)
Chat(t) ==
    \/ ChatAuth(t)
    \/ ChatCreate(t)
    \/ ChatUpload(t)
    \/ ChatNoAdvisor(t)
    \/ ChatAsk(t)
    \/ GetUserContext(t)
    \/ Embed(t)
    \/ QueryCareers(t)
    \/ QuerySkills(t)
    \/ QueryFaqs(t)
    \/ Generate(t)
    \/ ChatAnswered(t)
    \/ ChatPushUser(t)
    \/ ChatPushAi(t)

\* --------------------------------------- main.py: chat document handlers
\* raise HTTPException(status_code=404, detail="Chat not found")
NOT_FOUND == 404
\* user["email"] of the None that get_current_user returns without a profile
TYPE_ERROR == "'NoneType' object is not subscriptable"
Titles == {"t2"}
\* the filter {"_id": chat_id, "user_email": user["email"]}
ChatsOf(col, id, email) == {i \in ChatsWithId(col, id) : col[i].user_email = email}
\* delete_one(filter): the first document the filter matches is removed
delete_one(col, matches) ==
    IF matches = {} THEN col
    ELSE LET i == CHOOSE k \in matches : \A j \in matches : k <= j
         IN [j \in 1..(Len(col) - 1) |-> IF j < i THEN col[j] ELSE col[j + 1]]

\* get_current_user of a handler that is given a chat_id: without a profile the
\* request is over with the error given, else it goes on for the caller's email
ChatDocumentAuth(t, next, error) ==
    \E token \in Emails \cup {NoCookie},
       chat_id \in {Some(UNKNOWN_CHAT)} \cup {Some(chats[i].id) : i \in 1..Len(chats)} :
        LET user == IF token = NoCookie THEN None ELSE get_current_user(users, token)
        IN IF user = None
           THEN /\ cpc' = [cpc EXCEPT ![t] = "closed"]
                /\ cq' = [cq EXCEPT ![t].response = Raised(error)]
           ELSE /\ cpc' = [cpc EXCEPT ![t] = next]
                /\ cq' = [cq EXCEPT ![t] = [ChatIdle EXCEPT !.email = user[1].email,
                                                            !.chat_id = chat_id]]

\* get_chat_history, lines 320-321
HistoryAuth(t) ==
    /\ cpc[t] = "idle"
    /\ ChatDocumentAuth(t, "history", UNAUTHORIZED)
    /\ UNCHANGED <<notChat, turnVars, chats>>

\* get_chat_history, lines 322-324: the caller's chat of that id, or 404
HistoryFind(t) ==
    /\ cpc[t] = "history"
    /\ LET mine == ChatsOf(chats, cq[t].chat_id[1], cq[t].email)
       IN cq' = [cq EXCEPT ![t].response =
                    IF mine = {} THEN Raised(NOT_FOUND)
                    ELSE Returned(chats[CHOOSE k \in mine : \A j \in mine : k <= j])]
    /\ cpc' = [cpc EXCEPT ![t] = "closed"]
    /\ UNCHANGED <<notChat, turnVars, chats>>

\* delete_chat, lines 327-328: Depends(get_current_user), then user["email"]
DeleteAuth(t) ==
    /\ cpc[t] = "idle"
    /\ ChatDocumentAuth(t, "delete", TYPE_ERROR)
    /\ UNCHANGED <<notChat, turnVars, chats>>

\* delete_chat, lines 328-330
DeleteChat(t) ==
    /\ cpc[t] = "delete"
    /\ LET mine == ChatsOf(chats, cq[t].chat_id[1], cq[t].email)
       IN /\ chats' = delete_one(chats, mine)
          /\ cq' = [cq EXCEPT ![t].response =
                       IF mine = {} THEN Raised(NOT_FOUND) ELSE Returned("Deleted")]
    /\ cpc' = [cpc EXCEPT ![t] = "closed"]
    /\ UNCHANGED <<notChat, turnVars>>

\* rename_chat, lines 333-334: Depends(get_current_user), then user["email"]
RenameAuth(t) ==
    /\ cpc[t] = "idle"
    /\ ChatDocumentAuth(t, "rename", TYPE_ERROR)
    /\ UNCHANGED <<notChat, turnVars, chats>>

\* rename_chat, lines 334-336
RenameChat(t) ==
    /\ cpc[t] = "rename"
    /\ \E title \in Titles :
         LET mine == ChatsOf(chats, cq[t].chat_id[1], cq[t].email)
         IN /\ chats' = update_one(chats, mine,
                                   [i \in DOMAIN chats |-> [chats[i] EXCEPT !.title = title]])
            /\ cq' = [cq EXCEPT ![t].response =
                         IF mine = {} THEN Raised(NOT_FOUND) ELSE Returned("Renamed")]
    /\ cpc' = [cpc EXCEPT ![t] = "closed"]
    /\ UNCHANGED <<notChat, turnVars>>

\* get_chat_history, delete_chat and rename_chat
ChatDocument(t) ==
    \/ HistoryAuth(t)
    \/ HistoryFind(t)
    \/ DeleteAuth(t)
    \/ DeleteChat(t)
    \/ RenameAuth(t)
    \/ RenameChat(t)

\* ------------------------------------------- main.py: dashboard handlers
DashIdle ==
    [handler |-> "", user |-> None, recent |-> <<>>, computed |-> <<>>, failed |-> FALSE,
     result |-> Pending]
AI_NOT_READY == [error |-> "AI not ready"]
RECENT_LIMIT == 3
dashVars == <<apc, aq>>
notDash == <<users, advisor, index, rpc, rq, turnVars, careers, chats, cpc, cq,
            saved_messages, tpc, tq>>

\* lines 145-146 and 219-220: the caller's document, or 401
DashAuthenticate(handler, next) ==
    /\ apc = "idle"
    /\ \E token \in Emails :
         LET user == get_current_user(users, token)
         IN IF user = None
            THEN /\ apc' = "done"
                 /\ aq' = [aq EXCEPT !.handler = handler, !.result = Raised(UNAUTHORIZED)]
            ELSE /\ apc' = next
                 /\ aq' = [aq EXCEPT !.handler = handler, !.user = user]
    /\ UNCHANGED <<notDash, faults>>

\* get_detailed_analysis, lines 219-220
DetailAuth == apc = "idle" /\ DashAuthenticate("get_detailed_analysis", "detail")

\* lines 224-226: the custom entries are appended, currently_learning is attached
RECURSIVE AppendNew(_, _)
AppendNew(list, more) ==
    IF more = <<>> THEN list
    ELSE AppendNew(IF Head(more) \in Range(list) THEN list ELSE Append(list, Head(more)),
                   Tail(more))
ExtendAnalysisDeduplicated(analysis, user) ==
    [analysis EXCEPT !.missing_skills = AppendNew(@, user.custom_missing_skills)]
        @@ [currently_learning |-> user.currently_learning]
ExtendAnalysisCustomFirst(analysis, user) ==
    [analysis EXCEPT !.missing_skills = user.custom_missing_skills \o @]
        @@ [currently_learning |-> user.currently_learning]
ExtendAnalysis(analysis, user) ==
    [analysis EXCEPT !.missing_skills =
         IF user.custom_missing_skills # <<>> THEN @ \o user.custom_missing_skills ELSE @]
        @@ [currently_learning |-> user.currently_learning]

\* line 223: nothing catches what get_detailed_gap_analysis raises
OnAnalysisError(e) == Raised(e)

\* get_detailed_analysis, lines 221-227
DetailAnalyse ==
    /\ apc = "detail"
    /\ IF advisor = None
       THEN /\ aq' = [aq EXCEPT !.result = Returned(AI_NOT_READY)]
            /\ Fault(FALSE)
       ELSE \E raised \in {FALSE} \cup {f \in {TRUE} : MayFail} :
              LET analysis == IF raised THEN Raised("unavailable")
                              ELSE get_detailed_gap_analysis(users, careers, aq.user[1].email)
              IN /\ aq' = [aq EXCEPT
                             !.failed = analysis.kind = "raised",
                             !.computed = IF analysis.kind = "raised" THEN <<>>
                                          ELSE analysis.text.missing_skills,
                             !.result = IF analysis.kind = "raised"
                                        THEN OnAnalysisError(analysis.error)
                                        ELSE Returned(ExtendAnalysis(analysis.text, aq.user[1]))]
                 /\ Fault(raised)
    /\ apc' = "done"
    /\ UNCHANGED notDash

\* get_dashboard_data, lines 145-146
DashAuth == apc = "idle" /\ DashAuthenticate("get_dashboard_data", "dash_recent")

\* line 148: the caller's chats, newest update first, at most 3
RECURSIVE Newest(_, _, _)
Newest(col, among, n) ==
    IF among = {} \/ n = 0 THEN <<>>
    ELSE LET i == CHOOSE k \in among :
                    \A j \in among : \/ col[k].updated_at > col[j].updated_at
                                      \/ (col[k].updated_at = col[j].updated_at /\ k <= j)
         IN <<col[i]>> \o Newest(col, among \ {i}, n - 1)
RecentActivity(col, email) ==
    LET newest == Newest(col, {i \in 1..Len(col) : col[i].user_email = email}, RECENT_LIMIT)
    IN [i \in 1..Len(newest) |->
          [id |-> newest[i].id, title |-> newest[i].title, timestamp |-> newest[i].updated_at]]

\* get_dashboard_data, lines 148-149
DashRecent ==
    /\ apc = "dash_recent"
    /\ aq' = [aq EXCEPT !.recent = RecentActivity(chats, aq.user[1].email)]
    /\ apc' = "dash_recs"
    /\ UNCHANGED <<notDash, faults>>

\* lines 153-154: whatever get_career_recommendations raises is dropped
OnRecommendationError(e) == Returned(<<>>)
DashboardData(user, recent, recs) ==
    [name |-> user.name, skills |-> user.skills,
     currently_learning |-> user.currently_learning,
     recent_activity |-> recent, recommendations |-> recs]

\* get_dashboard_data, lines 151-162
DashRecs ==
    /\ apc = "dash_recs"
    /\ IF advisor = None
       THEN /\ aq' = [aq EXCEPT !.result = Returned(DashboardData(aq.user[1], aq.recent, <<>>))]
            /\ Fault(FALSE)
       ELSE \/ \E hits \in {Some(h) : h \in index["careers"]} \cup {n \in {None} : MayFail} :
                 /\ aq' = [aq EXCEPT
                              !.failed = hits = None,
                              !.result = Returned(DashboardData(aq.user[1], aq.recent,
                                  get_career_recommendations(users, careers, aq.user[1].email,
                                                             DEFAULT_K, hits)))]
                 /\ Fault(hits = None)
            \/ /\ MayFail
               /\ LET recs == OnRecommendationError("unavailable")
                  IN aq' = [aq EXCEPT
                              !.failed = TRUE,
                              !.result = IF recs.kind = "raised" THEN recs
                                         ELSE Returned(DashboardData(aq.user[1], aq.recent,
                                                                     recs.text))]
               /\ Fault(TRUE)
    /\ apc' = "done"
    /\ UNCHANGED notDash

Dashboard ==
    \/ DetailAuth
    \/ DetailAnalyse
    \/ DashAuth
    \/ DashRecent
    \/ DashRecs

Request(r) ==
    \/ RegisterCheck(r)
    \/ RegisterInsert(r)
    \/ UpdateRead(r)
    \/ UpdateWrite(r)
    \/ SkillRead(r)
    \/ SkillUpdate(r)
    \/ SkillRate(r)
    \/ SaveRead(r)
    \/ SaveWrite(r)

\* ------------------------------------ main.py: toggle_saved_message
Texts == {"m1"}
GENERAL_CHAT == "General Chat"
SavedIdle == [email |-> "", text |-> "", chat_title |-> None, existing |-> None]
notSaved == <<users, advisor, index, faults, rpc, rq, turnVars, careers, chats, cpc, cq,
             apc, aq>>

\* a saved_messages document; saved_at, the time of the insert, is left out: no
\* handler of this section reads it
SavedMessage(id, email, text, chat_title) ==
    [id |-> id, user_email |-> email, text |-> text, chat_title |-> chat_title]
\* the filter {"user_email": user["email"], "text": data.get("text")}
SavedOf(col, email, text) ==
    {i \in 1..Len(col) : col[i].user_email = email /\ col[i].text = text}
\* the filter {"_id": existing["_id"]}
SavedWithId(col, id) == {i \in 1..Len(col) : col[i].id = id}
\* the ObjectId of an insert: an id that no document has and no request holds
NewSavedId(col) ==
    LET used == {col[i].id : i \in 1..Len(col)}
                    \cup {tq[r].existing[1] : r \in {u \in Reqs : tq[u].existing # None}}
    IN CHOOSE n \in 1..(Cardinality(used) + 1) :
           n \notin used /\ \A m \in 1..(n - 1) : m \in used

\* lines 259-260: the caller's document, 401 without one
ToggleAuth(r) ==
    /\ tpc[r] = "idle"
    /\ \E token \in Emails \cup {NoCookie}, text \in Texts, chat_title \in Supplied({"c1"}) :
         LET user == IF token = NoCookie THEN None ELSE get_current_user(users, token)
         IN IF user = None
            THEN UNCHANGED <<tpc, tq>>
            ELSE /\ tpc' = [tpc EXCEPT ![r] = "find"]
                 /\ tq' = [tq EXCEPT ![r] = [SavedIdle EXCEPT !.email = user[1].email,
                                                             !.text = text,
                                                             !.chat_title = chat_title]]
    /\ UNCHANGED <<notSaved, saved_messages>>

\* lines 262-264: the caller's saved entry of that text, if there is one
ToggleFind(r) ==
    /\ tpc[r] = "find"
    /\ LET mine == SavedOf(saved_messages, tq[r].email, tq[r].text)
       IN IF mine = {}
          THEN /\ tpc' = [tpc EXCEPT ![r] = "insert"]
               /\ UNCHANGED tq
          ELSE /\ tpc' = [tpc EXCEPT ![r] = "delete"]
               /\ tq' = [tq EXCEPT ![r].existing =
                            Some(saved_messages[CHOOSE k \in mine : \A j \in mine : k <= j].id)]
    /\ UNCHANGED <<notSaved, saved_messages>>

\* lines 265-266: the entry found is deleted, "removed"
ToggleDelete(r) ==
    /\ tpc[r] = "delete"
    /\ saved_messages' =
           delete_one(saved_messages, SavedWithId(saved_messages, tq[r].existing[1]))
    /\ tpc' = [tpc EXCEPT ![r] = "idle"]
    /\ tq' = [tq EXCEPT ![r] = SavedIdle]
    /\ UNCHANGED notSaved

\* lines 268-276: a new entry, under the chat title given or "General Chat", "saved"
ToggleInsert(r) ==
    /\ tpc[r] = "insert"
    /\ saved_messages' =
           Append(saved_messages,
                  SavedMessage(NewSavedId(saved_messages), tq[r].email, tq[r].text,
                               IF tq[r].chat_title = None THEN GENERAL_CHAT
                               ELSE tq[r].chat_title[1]))
    /\ tpc' = [tpc EXCEPT ![r] = "idle"]
    /\ tq' = [tq EXCEPT ![r] = SavedIdle]
    /\ UNCHANGED notSaved

toggle_saved_message(r) ==
    \/ ToggleAuth(r)
    \/ ToggleFind(r)
    \/ ToggleDelete(r)
    \/ ToggleInsert(r)

\* ------------------------------------------------------ specifications
InitSaved ==
    /\ saved_messages = <<>>
    /\ tpc = [r \in Reqs |-> "idle"]
    /\ tq = [r \in Reqs |-> SavedIdle]

InitChats ==
    /\ chats = <<>>
    /\ cpc = [t \in Turns |-> "idle"]
    /\ cq = [t \in Turns |-> ChatIdle]

InitDash ==
    /\ careers = <<>>
    /\ apc = "idle"
    /\ aq = DashIdle

InitReqs ==
    /\ rpc = [r \in Reqs |-> "idle"]
    /\ rq = [r \in Reqs |-> Idle]

InitTurns ==
    /\ pc = [t \in Turns |-> "idle"]
    /\ user_context = [t \in Turns |-> <<>>]
    /\ query_embedding = [t \in Turns |-> <<>>]
    /\ results = [t \in Turns |-> [c \in CollectionNames |-> NoResults]]
    /\ retrieved = [t \in Turns |-> EmptyRetrieved]
    /\ outcome = [t \in Turns |-> Pending]
    /\ calls = [t \in Turns |-> <<>>]
    /\ failed = [t \in Turns |-> {}]
    /\ solo = [t \in Turns |->
                 [user_context |-> <<>>, retrieved |-> EmptyRetrieved, outcome |-> Pending]]

\* main.py line 35: the advisor is constructed once, in the default mode
InitAdvisor == advisor = CareerAdvisorRAG("balanced")

\* one turn at a time, the index and every failure unconstrained
Init ==
    /\ users = <<NewUser("u1", "n1")>>
    /\ InitAdvisor
    /\ index = [c \in CollectionNames |-> Rankings(c)]
    /\ faults = Cardinality(CallNames)
    /\ args \in {a \in [Turns -> Inputs \cup {NoInput}] : \A t \in Turns : t > 1 => a[t] = NoInput}
    /\ InitTurns
    /\ InitReqs
    /\ InitChats
    /\ InitSaved
    /\ InitDash

Next == Turn(1)

Spec == Init /\ [][Next]_vars

\* concurrent turns on a fixed knowledge base, with a budget of failures
ConcInputs == {i \in Inputs : i.conversation_history = None}
InitConc ==
    /\ users = <<NewUser("u1", "n1")>>
    /\ InitAdvisor
    /\ \E n \in 0..NumDocs :
         index = [c \in CollectionNames |->
                    {Hits(c, [i \in 1..Min(n, NResults(c)) |-> SIMILARITY_THRESHOLD - 1])}]
    /\ faults = MaxFaults
    /\ args \in [Turns -> ConcInputs]
    /\ InitTurns
    /\ InitReqs
    /\ InitChats
    /\ InitSaved
    /\ InitDash

NextConc == \E t \in Turns : Turn(t)

SpecConc == InitConc /\ [][NextConc]_vars

\* the profile handlers of main.py, concurrent, on a store that starts empty
InitStore ==
    /\ users = <<>>
    /\ InitAdvisor
    /\ index = [c \in CollectionNames |-> {<<>>}]
    /\ faults = 0
    /\ args = [t \in Turns |-> NoInput]
    /\ InitTurns
    /\ InitReqs
    /\ InitChats
    /\ InitSaved
    /\ InitDash

NextStore == \E r \in Reqs : Request(r)

SpecStore == InitStore /\ [][NextStore]_vars

\* the dashboard handlers of main.py, one request, over the profiles, career
\* documents and goals of the input sets
CareerNames ==
    <<<<"data", "analyst">>, <<"data", "engineer">>, <<"web", "developer">>,
      <<"ux", "designer">>>>
CareerTitle(i) ==
    <<Word(CareerNames[i][1], "title"), Word(CareerNames[i][2], "title")>>
\* target levels: one whose margin boundary is the rating 0, one whose boundary
\* ratings are both non-zero
TARGET_LOW == RATING_MARGIN
TARGET_HIGH == RATING_MARGIN + 3
RequirementMaps ==
    {<<>>,
     <<Requirement(Title("python"), TARGET_LOW)>>,
     <<Requirement(<<Word("python", "title"), Word("sql", "upper")>>, TARGET_HIGH),
       Requirement(Title("sql"), TARGET_HIGH)>>}
CareerStores ==
    {[i \in 1..NumDocs |-> [title |-> CareerTitle(i), requirements |-> reqs[i]]] :
        reqs \in [1..NumDocs -> RequirementMaps]}
GapSkillLists ==
    {<<>>, <<Title("python")>>, <<Lower("sql")>>, <<Lower("python"), Padded("sql")>>}
GapRatings == {TARGET_HIGH - RATING_MARGIN - 1, TARGET_HIGH - RATING_MARGIN}
GapRatingMaps == UNION {[D -> GapRatings] : D \in SUBSET {Lower("python"), Lower("sql")}}
KnownGoal == <<Word(CareerNames[1][1], "lower"), Word(CareerNames[1][2], "lower")>>
UnknownGoal == Title("astronaut")
GoalLists ==
    {<<>>, <<KnownGoal>>, <<UnknownGoal>>, <<KnownGoal, KnownGoal>>, <<KnownGoal, UnknownGoal>>}
CustomMissing ==
    {<<>>, <<MissingEntry(Title("docker"), UnknownGoal), MissingEntry(Title("sql"), KnownGoal)>>}
GapProfiles ==
    {[NewUser("u1", "n1") EXCEPT !.skills = p.skills, !.skill_ratings = p.skill_ratings,
                                 !.career_goal = p.career_goal,
                                 !.custom_missing_skills = p.custom_missing_skills] :
        p \in [skills : GapSkillLists, skill_ratings : GapRatingMaps,
               career_goal : GoalLists, custom_missing_skills : CustomMissing]}

InitGap ==
    /\ users \in {<<p>> : p \in GapProfiles}
    /\ advisor \in {None, CareerAdvisorRAG("balanced")}
    /\ index = [c \in CollectionNames |-> IF c = "careers" THEN Rankings(c) ELSE {<<>>}]
    /\ faults = MaxFaults
    /\ args = [t \in Turns |-> NoInput]
    /\ InitTurns
    /\ InitReqs
    /\ InitChats
    /\ InitSaved
    /\ careers \in CareerStores
    /\ apc = "idle"
    /\ aq = DashIdle

NextGap == Dashboard

SpecGap == InitGap /\ [][NextGap]_vars

\* chat requests, concurrent, on a fixed knowledge base, with a budget of failures
InitChat ==
    /\ users = <<NewUser("u1", "n1"), NewUser("u2", "n1")>>
    /\ advisor \in {None, CareerAdvisorRAG("balanced")}
    /\ index = [c \in CollectionNames |->
                  {Hits(c, [i \in 1..Min(1, NResults(c)) |-> SIMILARITY_THRESHOLD - 1])}]
    /\ faults = MaxFaults
    /\ args = [t \in Turns |-> NoInput]
    /\ InitTurns
    /\ InitReqs
    /\ InitChats
    /\ InitSaved
    /\ InitDash

NextChat == \E t \in Turns : Chat(t) \/ ChatDocument(t)

SpecChat == InitChat /\ [][NextChat]_vars

\* the toggle_saved_message requests of two registered users, concurrent, on a
\* saved_messages collection that starts empty
InitToggle ==
    /\ users = <<NewUser("u1", "n1"), NewUser("u2", "n1")>>
    /\ InitAdvisor
    /\ index = [c \in CollectionNames |-> {<<>>}]
    /\ faults = 0
    /\ args = [t \in Turns |-> NoInput]
    /\ InitTurns
    /\ InitReqs
    /\ InitChats
    /\ InitSaved
    /\ InitDash

NextToggle == \E r \in Reqs : toggle_saved_message(r)

SpecToggle == InitToggle /\ [][NextToggle]_vars

\* ---------------------------------------------------- advisor: claims
Done(t) == pc[t] = "done"
Called(t, call) == call \in Range(calls[t])
Failed(t, call) == call \in failed[t]
ReturnedText(t) == outcome[t].kind = "returned"
Generated(t) == Done(t) /\ ReturnedText(t) /\ ~Failed(t, "generate_content")
GeneratedPrompt(t) == outcome[t].text[2]
Count(s, x) == Cardinality({i \in 1..Len(s) : s[i] = x})
IsPrefix(s, r) == Len(s) <= Len(r) /\ s = SubSeq(r, 1, Len(s))

\* C1 as stated: query_advisor never raises, and whenever the generative backend
\* call or any other step of the turn fails, the returned text is one fixed
\* apologetic message.
C1_FixedFallback ==
    \A t \in Turns :
        /\ outcome[t].kind # "raised"
        /\ Done(t) /\ failed[t] # {} => outcome[t] = Returned(APOLOGY)

\* C1 amended: query_advisor never raises; a turn that ends has returned a text;
\* when the generative backend call fails that text is the fixed apology followed
\* by the details of the error, and otherwise it is the backend's text.
C1_FallbackInsteadOfRaise ==
    \A t \in Turns :
        /\ outcome[t].kind # "raised"
        /\ Done(t) => ReturnedText(t)
        /\ Done(t) /\ Failed(t, "generate_content") =>
              /\ Len(outcome[t].text) = Len(APOLOGY) + 2
              /\ SubSeq(outcome[t].text, 1, Len(APOLOGY)) = APOLOGY
              /\ outcome[t].text[Len(APOLOGY) + 2] \in GenErrors
        /\ Done(t) /\ ~Failed(t, "generate_content") => outcome[t].text[1] = "reply to"

C1_Witness == \E t \in Turns : Done(t) /\ Failed(t, "generate_content") /\ ReturnedText(t)

\* C2: when the vector search is empty or fails (the embedding fails, or every
\* collection's query fails or answers with no candidate under the threshold), the
\* retrieval of the turn is empty, the turn still reaches the generative backend
\* and query_advisor returns a non-empty text.
NoCandidate(t, c) ==
    \/ results[t][c].state = "raised"
    \/ /\ results[t][c].state = "answered"
       /\ \A i \in 1..Len(results[t][c].hits) :
              results[t][c].hits[i].distance >= SIMILARITY_THRESHOLD
SearchEmptyOrFailed(t) ==
    Failed(t, "encode") \/ \A c \in CollectionNames : NoCandidate(t, c)
C2_EmptySearchStillAnswers ==
    \A t \in Turns :
        SearchEmptyOrFailed(t) /\ pc[t] \in {"generate", "done"} =>
            /\ retrieved[t] = EmptyRetrieved
            /\ Done(t) => /\ ReturnedText(t)
                          /\ outcome[t].text # <<>>
                          /\ Called(t, "generate_content")
                          /\ Generated(t) => GeneratedPrompt(t).kb_context = NO_DATA

C2_Witness ==
    \E t \in Turns :
        /\ Done(t) /\ ReturnedText(t) /\ Failed(t, "encode")
        /\ ~Failed(t, "generate_content")

\* C3 as stated: when the profile is not found the turn ends at step 1 with the
\* guest message: no embedding, no vector search, no generative-backend call.
ProfileNotFound(t) ==
    /\ Called(t, "find_one") /\ ~Failed(t, "find_one")
    /\ find_one(users, args[t].user_email) = None
C3_GuestEndsTurn ==
    \A t \in Turns : ProfileNotFound(t) => calls[t] = <<"find_one">>

\* C3 amended: when the profile is not found the turn does not end at step 1: its
\* profile block is the fixed guest text and the turn goes on to the embedding, the
\* vector search and the generative-backend call, whose prompt carries that block.
C3_GuestTurnContinues ==
    \A t \in Turns :
        ProfileNotFound(t) =>
            /\ user_context[t] = GUEST_CONTEXT
            /\ pc[t] # "user_context"
            /\ Done(t) => /\ Called(t, "encode") /\ Called(t, "generate_content")
                          /\ Failed(t, "encode") \/ \A c \in CollectionNames : Called(t, c)
                          /\ Generated(t) => GeneratedPrompt(t).user_context = GUEST_CONTEXT

C3_Witness ==
    \E t \in Turns : ProfileNotFound(t) /\ Generated(t) /\ Called(t, "faqs")

\* C4: for each collection, a candidate the index returned is in the result of
\* retrieve_context if and only if its distance is strictly below the threshold.
InResult(t, c, doc) == \E j \in 1..Len(retrieved[t][c]) : retrieved[t][c][j].content = doc
Expected(t, c) ==
    IF results[t][c].state = "answered"
    THEN [i \in 1..Len(FilterHits(results[t][c].hits, SIMILARITY_THRESHOLD)) |->
            FilterHits(results[t][c].hits, SIMILARITY_THRESHOLD)[i].content]
    ELSE <<>>
C5_IndependentCollections ==
    \A t \in Turns :
        /\ outcome[t].kind # "raised"
        /\ \A c \in CollectionNames :
              /\ Failed(t, c) => retrieved[t][c] = <<>>
              /\ [i \in 1..Len(retrieved[t][c]) |-> retrieved[t][c][i].content] = Expected(t, c)
              /\ \A i \in 1..Len(retrieved[t][c]) : retrieved[t][c][i].content.coll = c
        /\ pc[t] \in {"generate", "done"} /\ ~Failed(t, "encode") =>
              \A c \in CollectionNames : Called(t, c)

C5_Witness ==
    \E t \in Turns :
        /\ Done(t) /\ Failed(t, "skills")
        /\ retrieved[t]["careers"] # <<>> /\ retrieved[t]["faqs"] # <<>>

\* C6: when the embedding call fails, retrieve_context returns an empty result for
\* all three collections, queries no collection of the index and raises nothing.
C6_NoEmbeddingNoQuery ==
    \A t \in Turns :
        Failed(t, "encode") =>
            /\ retrieved[t] = EmptyRetrieved
            /\ \A c \in CollectionNames : ~Called(t, c) /\ results[t][c].state = "unset"
            /\ outcome[t].kind # "raised"
            /\ pc[t] \in {"generate", "done"}

C6_Witness == \E t \in Turns : Failed(t, "encode") /\ Generated(t)

\* C8: the external calls of a turn happen in the fixed order profile read,
\* embedding, careers, skills, faqs, generation; the generative backend is called
\* only after the profile read, the embedding and retrieve_context have completed.
FullOrder == <<"find_one", "encode", "careers", "skills", "faqs", "generate_content">>
ShortOrder == <<"find_one", "encode", "generate_content">>
C8_StepsInOrder ==
    \A t \in Turns :
        /\ IF Failed(t, "encode") THEN IsPrefix(calls[t], ShortOrder)
                                  ELSE IsPrefix(calls[t], FullOrder)
        /\ Called(t, "generate_content") =>
              /\ Called(t, "find_one") /\ Called(t, "encode")
              /\ Failed(t, "encode") \/ \A c \in CollectionNames : Called(t, c)

C8_Witness == \E t \in Turns : Done(t) /\ calls[t] = FullOrder

\* C9: in one turn no external call is made twice, also when calls fail: the profile
\* store, the embedding function, each collection and the generative backend are
\* each called at most once.
C9_NoRetry ==
    \A t \in Turns : \A call \in CallNames : Count(calls[t], call) <= 1

C9_Witness ==
    \E t \in Turns :
        /\ Done(t) /\ Len(calls[t]) = 6
        /\ {"find_one", "careers", "faqs", "generate_content"} \subseteq failed[t]

\* C10: under any interleaving of concurrent turns no step of a turn changes the
\* advisor's fields or the profile store, and the outcome of every finished turn
\* is the outcome of the same turn run alone on the same external answers.
C10_NoSharedState ==
    /\ [](\A t \in Turns : Done(t) => outcome[t] = solo[t].outcome)
    /\ [][advisor' = advisor /\ users' = users]_vars

C10_Witness ==
    \E t \in Turns : \E u \in Turns :
        /\ t # u /\ args[t].user_email # args[u].user_email
        /\ Generated(t) /\ pc[u] \in {"careers", "skills", "faqs", "generate"}
        /\ user_context[t] # user_context[u]

\* C18: each per-collection sequence returned by retrieve_context is ordered by
\* non-increasing similarity, and its entries keep the order in which the index
\* returned them (so ties stay in index order): filtering never reorders.
C18_FilterKeepsOrder ==
    \A t \in Turns : \A c \in CollectionNames :
        \A i \in 1..Len(retrieved[t][c]) : \A j \in 1..Len(retrieved[t][c]) :
            i < j => /\ retrieved[t][c][i].similarity >= retrieved[t][c][j].similarity
                     /\ retrieved[t][c][i].content.id < retrieved[t][c][j].content.id

C18_Witness ==
    \E t \in Turns : \E c \in CollectionNames :
        /\ Len(retrieved[t][c]) = 2
        /\ retrieved[t][c][1].similarity = retrieved[t][c][2].similarity
        /\ retrieved[t][c][1].content.id = 1

\* C19: the history block of a turn's prompt is empty when no history or an empty
\* history is supplied; otherwise it is the header followed by the last
\* min(5, n) entries of the n supplied, in their original order, and no earlier
\* entry reaches the prompt.
SuppliedHistory(t) ==
    IF args[t].conversation_history = None THEN <<>> ELSE args[t].conversation_history[1]
C19_HistoryWindow ==
    \A t \in Turns :
        Generated(t) =>
            LET h == SuppliedHistory(t)
                block == GeneratedPrompt(t).history_text
                kept == Len(block) - 1
            IN IF h = <<>> THEN block = <<>>
               ELSE /\ block[1] = HISTORY_HEADER
                    /\ kept = Min(HISTORY_WINDOW, Len(h))
                    /\ \A j \in 1..kept :
                          block[j + 1] = <<Upper(h[Len(h) - kept + j].role),
                                           h[Len(h) - kept + j].content>>
                    /\ \A i \in 1..(Len(h) - HISTORY_WINDOW) :
                          \A j \in 2..Len(block) : block[j][2] # h[i].content

C19_Witness ==
    \E t \in Turns :
        /\ Generated(t) /\ Len(SuppliedHistory(t)) > HISTORY_WINDOW
        /\ Len(GeneratedPrompt(t).history_text) = HISTORY_WINDOW + 1

\* ---------------------------------------------------------- chat: claims
\* C11: every chat request of an authenticated user, with or without an upload and
\* with the advisor ready, failing or not constructed, ends with a response that
\* carries a non-empty answer text, and that text is stored as an AI message of the
\* chat the response names.
StoredAnswer(chat_id, ai_text) ==
    \E i \in ChatsWithId(chats, chat_id) :
        \E k \in 1..Len(chats[i].messages) : chats[i].messages[k] = ChatMessage("ai", ai_text)
C11_ChatAlwaysAnswers ==
    \A t \in Turns :
        cpc[t] = "done" /\ cq[t].email # "" =>
            /\ cq[t].response.kind = "returned"
            /\ cq[t].response.text.ai_response # <<>>
            /\ StoredAnswer(cq[t].response.text.chat_id, cq[t].response.text.ai_response)

\* C25: chats are isolated per user: no step of a request authenticated as one
\* user changes or removes a chat document of another user (no message appended,
\* no rename, no delete), and get_chat_history returns only a chat of its caller.
C25_ChatsIsolated ==
    [][\A t \in Turns :
         cpc'[t] # cpc[t] /\ cq[t].email # ""
         => /\ \A i \in 1..Len(chats) :
                 chats[i].user_email # cq[t].email
                 => \E j \in 1..Len(chats') : chats'[j] = chats[i]
            /\ (cpc[t] = "history" /\ cq'[t].response.kind = "returned")
                 => cq'[t].response.text.user_email = cq[t].email]_vars

\* the message list is user messages each immediately followed by an AI message
Paired(messages) ==
    /\ Len(messages) % 2 = 0
    /\ \A k \in 1..Len(messages) :
         messages[k].sender = IF k % 2 = 1 THEN "user" ELSE "ai"
\* the two messages of a turn are stored next to each other in the chat it names
TurnStored(col, turn) ==
    \E i \in ChatsWithId(col, turn.chat_id[1]) :
        \E k \in 1..(Len(col[i].messages) - 1) :
            /\ col[i].messages[k] = ChatMessage("user", turn.user_message)
            /\ col[i].messages[k + 1] = ChatMessage("ai", turn.ai_text)

\* C26: every chat turn is recorded as a pair: whenever no chat request is between
\* its two pushes, the message list of every chat is user messages each immediately
\* followed by an AI response, and a turn that returns an answer has its user
\* message and its AI response stored, next to each other, when it returns.
C26_TurnsStoredAsPairs ==
    [][/\ (\A t \in Turns : cpc'[t] # "push_ai")
            => \A i \in 1..Len(chats') : Paired(chats'[i].messages)
       /\ \A t \in Turns :
            (/\ cpc[t] = "push_ai" /\ cpc'[t] = "done"
             /\ cq'[t].response.kind = "returned")
            => TurnStored(chats', cq'[t])]_vars

\* ---------------------------------------------------- dashboards: claims
Finished(handler) == apc = "done" /\ aq.handler = handler /\ aq.user # None
Analysed ==
    /\ Finished("get_detailed_analysis") /\ aq.result.kind = "returned"
    /\ aq.result.text # AI_NOT_READY
Recommended == Finished("get_dashboard_data") /\ aq.result.kind = "returned"
HasPair(list, skill, goal) ==
    \E i \in 1..Len(list) : list[i].skill = skill /\ list[i].goal = goal
NoPairTwice(list) ==
    \A i \in 1..Len(list) : \A j \in 1..Len(list) :
        list[i].skill = list[j].skill /\ list[i].goal = list[j].goal => i = j

\* C12: for an authenticated user both dashboard handlers complete with a payload
\* of data (for get_detailed_analysis one that carries the missing_skills list),
\* also when the advisor is unavailable or its operation fails.
C12_DashboardsAlwaysRender ==
    /\ Finished("get_dashboard_data") =>
          aq.result.kind = "returned" /\ "recommendations" \in DOMAIN aq.result.text
    /\ Finished("get_detailed_analysis") =>
          aq.result.kind = "returned" /\ "missing_skills" \in DOMAIN aq.result.text

\* C13: in the gap analysis of a user, for every required label that the user
\* lists: with a non-zero rating of exactly target - 2 the label is not reported
\* missing for its goal, and with a rating of target - 3 it is.
C13_StrictMarginBoundary ==
    Analysed =>
        \A g \in 1..Len(aq.result.text.charts) :
            LET chart == aq.result.text.charts[g] IN
            \A i \in 1..Len(chart.labels) :
                lenient_present(chart.labels[i], aq.result.text.skills) =>
                    /\ chart.user_levels[i] = chart.target_levels[i] - 2
                             /\ chart.user_levels[i] # 0
                          => ~HasPair(aq.computed, chart.labels[i], chart.goal)
                    /\ chart.user_levels[i] = chart.target_levels[i] - 3
                          => HasPair(aq.computed, chart.labels[i], chart.goal)

C13_Witness ==
    /\ Analysed
    /\ \E g \in 1..Len(aq.result.text.charts) :
          LET chart == aq.result.text.charts[g] IN
          \E i \in 1..Len(chart.labels) : \E j \in 1..Len(chart.labels) :
              /\ lenient_present(chart.labels[i], aq.result.text.skills)
              /\ lenient_present(chart.labels[j], aq.result.text.skills)
              /\ chart.user_levels[i] = chart.target_levels[i] - 2
              /\ chart.user_levels[j] = chart.target_levels[j] - 3
              /\ ~HasPair(aq.computed, chart.labels[i], chart.goal)
              /\ HasPair(aq.computed, chart.labels[j], chart.goal)

\* the requirement map of a recommended career, and whether all of it is matched
RequirementsOf(title) == find_requirement(careers, title)[1].requirements
EveryLabelMatched(reqs, skills) ==
    \A i \in 1..Len(reqs) :
        \E k \in 1..Len(skills) : Normalize(skills[k]) = Normalize(reqs[i].label)

\* C14 as stated: for every requirement map, the empty one included, the
\* presence-only coverage is an integer in [0,100] and is 100 if and only if every
\* label of the map has a normalized whole-string match in the user's skill list.
C14_FullCoverageIffAllMatched ==
    Recommended =>
        \A i \in 1..Len(aq.result.text.recommendations) :
            LET entry == aq.result.text.recommendations[i] IN
            /\ entry.match_score \in 0..100
            /\ entry.match_score = 100
                  <=> EveryLabelMatched(RequirementsOf(entry.title), aq.result.text.skills)

\* C14 amended: the presence-only coverage is an integer in [0,100]; for the empty
\* requirement map it is 0, and for a non-empty map it is 100 if and only if every
\* label has a normalized whole-string match in the user's skill list.
C14_CoverageOfNonEmptyMap ==
    Recommended =>
        \A i \in 1..Len(aq.result.text.recommendations) :
            LET entry == aq.result.text.recommendations[i]
                reqs == RequirementsOf(entry.title)
            IN /\ entry.match_score \in 0..100
               /\ reqs = <<>> => entry.match_score = 0
               /\ reqs # <<>> =>
                     (entry.match_score = 100
                         <=> EveryLabelMatched(reqs, aq.result.text.skills))

C14_Witness ==
    /\ Recommended
    /\ \E i \in 1..Len(aq.result.text.recommendations) :
          \E j \in 1..Len(aq.result.text.recommendations) :
              /\ aq.result.text.recommendations[i].match_score = 100
              /\ RequirementsOf(aq.result.text.recommendations[i].title) # <<>>
              /\ RequirementsOf(aq.result.text.recommendations[j].title) = <<>>

C16_OrderedByMatchScore ==
    Recommended =>
        \A i \in 1..Len(aq.result.text.recommendations) :
            \A j \in 1..Len(aq.result.text.recommendations) :
                i < j => aq.result.text.recommendations[i].match_score
                            >= aq.result.text.recommendations[j].match_score

C16_Witness ==
    /\ Recommended
    /\ Len(aq.result.text.recommendations) >= 2
    /\ aq.result.text.recommendations[1].match_score
          > aq.result.text.recommendations[2].match_score
    /\ aq.result.text.recommendations[1].similarity
          < aq.result.text.recommendations[2].similarity

\* C17 as stated: in the missing_skills list that the detailed analysis returns, no
\* (skill label, goal) pair occurs more than once.
C17_NoPairTwiceReturned ==
    Analysed => NoPairTwice(aq.result.text.missing_skills)

\* C17 amended: in the missing_skills list that the engine computes, no (skill
\* label, goal) pair occurs more than once, also when a goal is listed twice; that
\* list is the front of the returned list, and the custom entries appended after
\* it are not deduplicated.
C17_NoPairTwiceComputed ==
    Analysed =>
        /\ NoPairTwice(aq.computed)
        /\ Len(aq.computed) <= Len(aq.result.text.missing_skills)
        /\ SubSeq(aq.result.text.missing_skills, 1, Len(aq.computed)) = aq.computed

C17_Witness ==
    /\ Analysed
    /\ aq.user[1].career_goal = <<KnownGoal, KnownGoal>>
    /\ Len(aq.computed) = 1
    /\ ~NoPairTwice(aq.result.text.missing_skills)

\* C21: the missing_skills list that get_detailed_analysis returns is the list the
\* engine computed followed by every entry of the user's custom_missing_skills, in
\* order; no custom entry is dropped because the computed list already has it.
C21_CustomEntriesAppended ==
    Analysed =>
        aq.result.text.missing_skills = aq.computed \o aq.user[1].custom_missing_skills

C21_Witness ==
    /\ Analysed
    /\ Len(aq.user[1].custom_missing_skills) = 2
    /\ \E i \in 1..Len(aq.computed) : aq.computed[i] = aq.user[1].custom_missing_skills[2]
    /\ Len(aq.result.text.missing_skills) = Len(aq.computed) + 2

\* ------------------------------------------------------ saved messages: claims
\* C28: in every reachable state the saved_messages collection holds at most one
\* entry per (user, text) pair, also when toggles of the same text by the same user
\* run concurrently.
C28_OneSavedEntryPerText ==
    \A email \in Emails, text \in Texts :
        Cardinality(SavedOf(saved_messages, email, text)) <= 1

\* ------------------------------------------------------ store: claims
\* C7: in every reachable state of the profile store, the keys of each user's
\* skill_ratings map are among that user's skills.
C7_RatingsSubsetOfSkills ==
    \A i \in 1..Len(users) : DOMAIN users[i].skill_ratings \subseteq Range(users[i].skills)

\* C20: no step of register, update_profile, skill_action or save_analysis removes
\* a profile: the store never shrinks, and an email that has a profile has one in
\* every later state.
C20_ProfilesNeverDeleted ==
    [][/\ Len(users') >= Len(users)
       /\ \A e \in StoreEmails : Matching(users, e) # {} => Matching(users', e) # {}]_vars

\* the steps in which request r completes a handler that was at the given position
Completes(r, position) == rpc[r] = position /\ rpc'[r] = "idle"

\* C22: update_profile is a partial update: after the request, every field that
\* its body did not supply (skills, skill_ratings, career_goal, qualifications,
\* currently_learning, name) has the stored value it had before the request.
C22_PartialUpdate ==
    [][\A r \in Reqs : \A body \in ProfileBodies :
         (/\ Completes(r, "update_write")
          /\ users' = update_profile(users, rq[r].email, rq[r].skill_ratings,
                                     UserProfileUpdate(body)))
         => \A i \in Matching(users, rq[r].email) :
              /\ users'[i].skill_ratings = users[i].skill_ratings
              /\ body.name = None => users'[i].name = users[i].name
              /\ body.skills = None => users'[i].skills = users[i].skills
              /\ body.career_goal = None => users'[i].career_goal = users[i].career_goal
              /\ body.qualifications = None =>
                    users'[i].qualifications = users[i].qualifications
              /\ body.currently_learning = None =>
                    users'[i].currently_learning = users[i].currently_learning]_vars

\* C23: profile writes are serializable: the skill_ratings that update_profile
\* stores are the ratings of the document as it is when the write is applied, cut
\* to the new skills, which is the outcome of running it after the requests that
\* wrote before it; it never writes back ratings computed from a snapshot that a
\* save_analysis or skill_action request has changed since.
C23_NoStaleRatingsWritten ==
    [][\A r \in Reqs :
         (Completes(r, "update_write") /\ Matching(users, rq[r].email) # {})
         => LET i == FirstMatch(users, rq[r].email)
            IN users'[i].skill_ratings =
                   clean_ratings(users[i].skill_ratings, users'[i].skills)]_vars

\* C24: in every reachable state at most one profile document exists per email,
\* also when two register requests for the same email run concurrently.
C24_OneProfilePerEmail ==
    \A email \in StoreEmails : Cardinality(Matching(users, email)) <= 1

\* C27: when a skill_action request with active=true completes, the named skill
\* is in exactly one of the caller's two lists: after 'learned' it is in skills,
\* has a rating and is not in currently_learning; after 'learning' it is in
\* currently_learning and neither in skills nor in skill_ratings. A reader sees
\* no state in which 'learned' is applied in part: the state between its two
\* updates has the skill in skills with a rating too.
IsLearned(doc, skill) ==
    /\ skill \in Range(doc.skills)
    /\ skill \in DOMAIN doc.skill_ratings
    /\ skill \notin Range(doc.currently_learning)
IsLearning(doc, skill) ==
    /\ skill \in Range(doc.currently_learning)
    /\ skill \notin Range(doc.skills)
    /\ skill \notin DOMAIN doc.skill_ratings
C27_SkillInOneList ==
    [][\A r \in Reqs :
         Matching(users, rq[r].email) # {} =>
            LET i == FirstMatch(users, rq[r].email) IN
            /\ Completes(r, "skill_rate") => IsLearned(users'[i], rq[r].skill)
            /\ (rpc[r] = "skill_update" /\ rpc'[r] = "skill_rate")
                 => IsLearned(users'[i], rq'[r].skill)
            /\ \A skill \in Skills :
                 (/\ Completes(r, "skill_update")
                  /\ users' = update_one(users, Matching(users, rq[r].email),
                                         [j \in DOMAIN users |-> Learning(users[j], skill)]))
                 => IsLearning(users'[i], skill)]_vars

C20_Witness ==
    /\ Len(users) >= 1
    /\ users[1].name = "n2" /\ users[1].skills # <<>> /\ users[1].custom_missing_skills # <<>>

====
